---- MODULE Spec2Model ----
(***************************************************************************)
(* Model of src/script/bunching_analysis.py: class BunchingAnalysis.        *)
(*                                                                         *)
(* Numbers.  Sample values, bin edges, midpoints, exclusion points and      *)
(* zstar are decimals with at most three places and are held as integers   *)
(* in thousandths (0.175 is 175); binwidth is a number of thousandths that  *)
(* divides 1000, and zstar is any number of thousandths (below 0 and above  *)
(* 1 included).  The program computes in binary doubles.  On these values   *)
(* a double result differs from the decimal one only where the decimal      *)
(* result is a tie (x.round(d) = rint(x * 10^d) / 10^d with the product on   *)
(* a half) or an equality (midpoint against zstar -/+ binwidth); there the   *)
(* double falls on one side, and the tables Round2Flips, EdgeFlips,          *)
(* MidpointFlips, LabelFlips, WindowLowAbove and WindowHighBelow list the    *)
(* cases in which it falls on the side decimal arithmetic does not take.     *)
(* A fitted value is an exact rational <<num, den>> in lowest terms with     *)
(* den > 0.                                                                  *)
(*                                                                         *)
(* Random generator.  numpy's process-wide generator is the variable rng.   *)
(* It is numpy's MT19937, held as <<s, c>>: the state np.random.seed(s)     *)
(* sets, advanced by c 32-bit outputs.  Series.sample(n, replace=True)      *)
(* draws its n indices with np.random.choice(len, size=n), i.e. randint's   *)
(* masked rejection: an index among len is the next output masked to the    *)
(* bits of len - 1, redrawn while it exceeds len - 1 (no output is used     *)
(* when len is 1).  Mt19937Low2 holds the two low bits of the first         *)
(* outputs of the streams used, so samples have at most four values.        *)
(*                                                                         *)
(* np.polyfit / np.poly1d are modelled by the closed-form least-squares     *)
(* solution for the degrees in PolyDegrees (0 and 1).  A rank-deficient     *)
(* system (fewer points than coefficients) only makes np.polyfit warn and   *)
(* return the minimum-norm solution, which interpolates the points; an      *)
(* empty x makes it raise TypeError.                                        *)
(*                                                                         *)
(* The mean and standard-deviation curves returned next to the matrix are   *)
(* computed from the matrix alone and are not part of the state.            *)
(***************************************************************************)
EXTENDS Integers, Sequences, FiniteSets, TLC

\* ------------------------------------------------------------------ bounds

\* Largest num_simulations a scenario is called with.
MaxSims == 2

\* Longest exclude_points list scenario1 is called with.
MaxPoints == 2

\* Number of points of a fitted curve (np.linspace(..., 20), np.zeros((n, 20))).
GridPoints == 20

\* Thousandths in 1 (the upper end of the binned range).
One == 1000

\* Constructor arguments the model draws the estimator from.  A series entry
\* is <<v>> (a value) or <<>> (missing, NaN).
InputSeries ==
  { << <<0>>, <<499>> >>,
    << <<300>>, <<>>, <<1000>> >>,
    << <<122>>, <<996>> >>,
    << <<545>>, <<575>> >>,
    << <<0>>, <<250>>, <<499>> >> }

BinWidths == {50, 125, 250, 500}

PolyDegrees == {0, 1}

Seeds == {123, 7}

\* Arguments of the calls.
ExcludeValues == {125, 175, 250}

ZStars == {175, 200, 375, 500}

\* Columns handed to add_bin_midpoint_column (the values of df[var_name]).
Columns == { <<0, 300>>, <<499, 50>>, <<545, 575>>, <<1000>>, <<>> }

\* Seeds of the streams the process-wide generator can be found on.
StreamSeeds == {0, 7, 23, 123}

\* States the process can have left the generator in before the first call.
RngStates == StreamSeeds \X {0, 3}

\* ------------------------------------------------------------------ helpers

RECURSIVE SumSeq(_)
SumSeq(s) == IF s = <<>> THEN 0 ELSE Head(s) + SumSeq(Tail(s))

RECURSIVE Dot(_, _)
Dot(s, t) == IF s = <<>> THEN 0 ELSE Head(s) * Head(t) + Dot(Tail(s), Tail(t))

MinSeq(s) == CHOOSE m \in {s[i] : i \in DOMAIN s} : \A i \in DOMAIN s : m <= s[i]

MaxSeq(s) == CHOOSE m \in {s[i] : i \in DOMAIN s} : \A i \in DOMAIN s : m >= s[i]

Abs(a) == IF a < 0 THEN 0 - a ELSE a

RECURSIVE Gcd(_, _)
Gcd(a, b) == IF b = 0 THEN a ELSE Gcd(b, a % b)

\* The rational n/d (d # 0) in lowest terms with a positive denominator.
Frac(n, d) ==
  LET g == Gcd(Abs(n), Abs(d))
      s == IF d < 0 THEN 0 - 1 ELSE 1
  IN  << (s * n) \div g, (s * d) \div g >>

\* np.rint of the double that stands for a / u: the nearest integer; when
\* a / u is a decimal half, the double is on the half or beside it, and the
\* result is the even neighbour unless off, and then the other neighbour.
Rint(a, u, off) ==
  LET lo == a \div u
      r == a % u
      even == IF lo % 2 = 0 THEN lo ELSE lo + 1
  IN  IF 2 * r < u THEN lo
      ELSE IF 2 * r > u THEN lo + 1
      ELSE IF off THEN 2 * lo + 1 - even ELSE even

\* The values v / 1000 in [0, 1] whose product with 100 is a double beside
\* the half, on the side of the odd neighbour.
Round2Flips == {545, 575}

\* x.round(2) of the double written v / 1000.
Round2(v) == 10 * Rint(v, 10, v \in Round2Flips)

RoundSeq2(s) == [j \in DOMAIN s |-> Round2(s[j])]

\* <<binwidth, edge>>: the edges (the doubles np.arange yields) that round(2)
\* takes to the odd neighbour.
EdgeFlips ==
  {
    <<1, 285>>, <<1, 545>>, <<1, 565>>, <<5, 285>>, <<5, 545>>, <<5, 565>>, <<25, 425>>, <<25,
    725>>
  }

\* self.bins.round(2)
RoundEdges2(b) ==
  [j \in DOMAIN b |-> 10 * Rint(b[j], 10, <<b[2], b[j]>> \in EdgeFlips)]

\* <<binwidth, bins[i] + bins[i+1]>>: the half-sums that round(3) takes to the
\* odd neighbour.
MidpointFlips ==
  {
    <<1, 9>>, <<1, 13>>, <<1, 37>>, <<1, 53>>, <<1, 73>>, <<1, 105>>, <<1, 145>>, <<1, 173>>,
    <<1, 205>>, <<1, 209>>, <<1, 237>>, <<1, 285>>, <<1, 289>>, <<1, 345>>, <<1, 349>>, <<1,
    409>>, <<1, 413>>, <<1, 417>>, <<1, 473>>, <<1, 477>>, <<1, 565>>, <<1, 569>>, <<1, 573>>,
    <<1, 693>>, <<1, 697>>, <<1, 701>>, <<1, 817>>, <<1, 821>>, <<1, 825>>, <<1, 829>>, <<1,
    941>>, <<1, 945>>, <<1, 949>>, <<1, 953>>, <<1, 957>>, <<1, 1155>>, <<1, 1159>>, <<1,
    1163>>, <<1, 1167>>, <<1, 1171>>, <<1, 1175>>, <<1, 1179>>, <<1, 1183>>, <<1, 1187>>, <<1,
    1191>>, <<1, 1195>>, <<1, 1199>>, <<1, 1203>>, <<1, 1207>>, <<1, 1211>>, <<1, 1215>>, <<1,
    1219>>, <<1, 1223>>, <<1, 1227>>, <<1, 1231>>, <<1, 1235>>, <<1, 1239>>, <<1, 1243>>, <<1,
    1257>>, <<1, 1261>>, <<1, 1265>>, <<1, 1269>>, <<1, 1273>>, <<1, 1277>>, <<1, 1281>>, <<1,
    1285>>, <<1, 1289>>, <<1, 1293>>, <<1, 1297>>, <<1, 1301>>, <<1, 1305>>, <<1, 1309>>, <<1,
    1313>>, <<1, 1317>>, <<1, 1321>>, <<1, 1325>>, <<1, 1329>>, <<1, 1333>>, <<1, 1337>>, <<1,
    1341>>, <<1, 1345>>, <<1, 1349>>, <<1, 1353>>, <<1, 1357>>, <<1, 1361>>, <<1, 1365>>, <<1,
    1369>>, <<1, 1373>>, <<1, 1377>>, <<1, 1381>>, <<1, 1385>>, <<1, 1389>>, <<1, 1393>>, <<1,
    1397>>, <<1, 1401>>, <<1, 1405>>, <<1, 1667>>, <<1, 1671>>, <<1, 1675>>, <<1, 1679>>, <<1,
    1683>>, <<1, 1687>>, <<1, 1691>>, <<1, 1695>>, <<1, 1699>>, <<1, 1703>>, <<1, 1707>>, <<1,
    1711>>, <<1, 1715>>, <<1, 1719>>, <<1, 1723>>, <<1, 1727>>, <<1, 1731>>, <<1, 1735>>, <<1,
    1739>>, <<1, 1743>>, <<1, 1757>>, <<1, 1761>>, <<1, 1765>>, <<1, 1769>>, <<1, 1773>>, <<1,
    1777>>, <<1, 1781>>, <<1, 1785>>, <<1, 1789>>, <<1, 1793>>, <<1, 1797>>, <<1, 1801>>, <<1,
    1805>>, <<1, 1809>>, <<1, 1813>>, <<1, 1817>>, <<1, 1821>>, <<1, 1825>>, <<1, 1829>>, <<1,
    1833>>, <<1, 1837>>, <<1, 1841>>, <<1, 1845>>, <<1, 1849>>, <<1, 1853>>, <<1, 1857>>, <<1,
    1861>>, <<1, 1865>>, <<1, 1869>>, <<1, 1873>>, <<1, 1877>>, <<1, 1881>>, <<1, 1885>>, <<1,
    1889>>, <<1, 1893>>, <<1, 1897>>, <<1, 1901>>, <<1, 1905>>, <<1, 1909>>, <<1, 1913>>, <<1,
    1917>>, <<5, 105>>, <<5, 115>>, <<5, 145>>, <<5, 205>>, <<5, 285>>, <<5, 345>>, <<5,
    565>>, <<5, 705>>, <<5, 825>>, <<5, 945>>, <<5, 1175>>, <<5, 1195>>, <<5, 1215>>, <<5,
    1235>>, <<5, 1265>>, <<5, 1285>>, <<5, 1305>>, <<5, 1325>>, <<5, 1345>>, <<5, 1365>>, <<5,
    1385>>, <<5, 1675>>, <<5, 1695>>, <<5, 1715>>, <<5, 1735>>, <<5, 1765>>, <<5, 1785>>, <<5,
    1805>>, <<5, 1825>>, <<5, 1845>>, <<5, 1865>>, <<5, 1885>>, <<5, 1905>>, <<25, 325>>,
    <<25, 425>>, <<25, 725>>, <<25, 825>>, <<25, 1325>>, <<25, 1425>>, <<25, 1825>>, <<25,
    1925>>
  }

\* <<binwidth, i>>: the bins i (from 1) whose midpoints[i] - binwidth / 2 is
\* taken to the odd neighbour by round(3).
LabelFlips ==
  {
    <<1, 5>>, <<1, 7>>, <<1, 18>>, <<1, 86>>, <<1, 629>>, <<1, 631>>, <<1, 633>>, <<1, 635>>,
    <<1, 637>>, <<1, 639>>, <<1, 641>>, <<1, 643>>, <<1, 645>>, <<1, 647>>, <<1, 649>>, <<1,
    651>>, <<1, 653>>, <<1, 655>>, <<1, 657>>, <<1, 659>>, <<1, 661>>, <<1, 663>>, <<1, 665>>,
    <<1, 667>>, <<1, 669>>, <<1, 671>>, <<1, 673>>, <<1, 675>>, <<1, 677>>, <<1, 679>>, <<1,
    681>>, <<1, 683>>, <<1, 685>>, <<1, 687>>, <<1, 879>>, <<1, 881>>, <<1, 883>>, <<1, 885>>,
    <<1, 887>>, <<1, 889>>, <<1, 891>>, <<1, 893>>, <<1, 895>>, <<1, 897>>, <<1, 899>>, <<1,
    901>>, <<1, 903>>, <<1, 905>>, <<1, 907>>, <<1, 909>>, <<1, 911>>, <<1, 913>>, <<1, 915>>,
    <<1, 917>>, <<1, 919>>, <<1, 921>>, <<1, 923>>, <<1, 925>>, <<1, 927>>, <<1, 929>>, <<1,
    931>>, <<1, 933>>, <<1, 935>>, <<1, 937>>, <<5, 4>>, <<5, 18>>, <<5, 24>>, <<5, 127>>,
    <<5, 129>>, <<5, 131>>, <<5, 133>>, <<5, 135>>, <<5, 137>>, <<5, 177>>, <<5, 179>>, <<5,
    181>>, <<5, 183>>, <<5, 185>>, <<5, 187>>, <<25, 1>>, <<25, 10>>, <<25, 12>>, <<25, 27>>,
    <<25, 37>>, <<125, 1>>
  }

\* <<binwidth, zstar>>: the double zstar - binwidth is above the midpoint
\* that equals it in decimals.
WindowLowAbove ==
  {
    <<2, 17>>, <<2, 21>>, <<2, 29>>, <<4, 34>>, <<4, 42>>, <<4, 58>>,
    <<5, 58>>, <<5, 67>>, <<8, 68>>, <<8, 84>>, <<8, 116>>, <<10, 25>>,
    <<10, 85>>, <<10, 115>>, <<20, 50>>, <<20, 170>>, <<20, 230>>,
    <<25, 137>>, <<25, 263>>, <<40, 100>>, <<40, 340>>, <<40, 460>>,
    <<50, 275>>, <<50, 525>>, <<100, 550>>, <<100, 1050>>, <<200, 1100>>
  }

\* <<binwidth, zstar>>: the double zstar + binwidth is below the midpoint
\* that equals it in decimals.
WindowHighBelow ==
  {
    <<1, 9>>, <<1, 13>>, <<2, 19>>, <<2, 27>>, <<4, 38>>, <<4, 54>>,
    <<5, 37>>, <<5, 43>>, <<5, 52>>, <<8, 76>>, <<8, 108>>, <<10, 75>>,
    <<10, 105>>, <<20, 150>>, <<20, 210>>, <<25, 87>>, <<40, 300>>,
    <<40, 420>>, <<50, 175>>, <<100, 350>>, <<200, 700>>
  }

\* ------------------------------------------------------------------ __init__

\* data_series.dropna()
RECURSIVE DropNa(_)
DropNa(s) ==
  IF s = <<>> THEN <<>>
  ELSE IF Head(s) = <<>> THEN DropNa(Tail(s))
  ELSE <<Head(s)[1]>> \o DropNa(Tail(s))

\* np.arange(0, 1 + binwidth, binwidth): the multiples of binwidth below 1 + binwidth.
Arange(bw) ==
  LET n == ((One + bw) + bw - 1) \div bw
  IN  [j \in 1..n |-> (j - 1) * bw]

\* ((bins[:-1] + bins[1:]) / 2).round(3); b[2] is the bin width.
Midpoints(b) ==
  [j \in 1..(Len(b) - 1) |->
     Rint(b[j] + b[j + 1], 2, <<b[2], b[j] + b[j + 1]>> \in MidpointFlips)]

\* ------------------------------------------------------------------ random generator

\* The two low bits of the first outputs (genrand_int32) of MT19937 after
\* init_genrand(seed), which is what np.random.seed(seed) runs.
Mt19937Low2 ==
  (0 :> <<
         0, 3, 1, 0, 3, 3, 3, 3, 1, 3, 1, 2, 0, 3, 2, 0, 0, 0, 2, 1, 2, 3, 3, 2, 0, 1, 1, 1, 1, 0, 1, 0,
         3, 0, 3, 1, 2, 3, 3, 0, 2, 3, 0, 1, 3, 1, 3, 3, 2, 3, 0, 1, 1, 1, 3, 0, 3, 2, 0, 3, 3, 2, 3, 2,
         3, 0, 2, 0, 0, 0, 1, 1, 2, 0, 0, 1, 3, 0, 1, 2, 2, 3, 0, 1, 1, 3, 1, 1, 3, 2, 3, 3, 2, 2, 3, 0,
         2, 3, 1, 0, 1, 2, 0, 3, 0, 2, 0, 3, 3, 0, 3, 0, 0, 0, 0, 2, 3, 0, 3, 2, 3, 3, 1, 1, 1, 0, 1, 1,
         1, 3, 0, 3, 1, 2, 0, 1, 2, 0, 2, 0, 1, 3, 2, 2, 1, 0, 3, 1, 1, 3, 0, 2, 2, 3, 2, 3, 3, 3, 2, 1,
         2, 2, 3, 2, 3, 3, 2, 2, 3, 0, 1, 2, 3, 2, 1, 2, 1, 0, 2, 2, 3, 0, 3, 2, 3, 0, 0, 2, 0, 2, 3, 2 >>) @@
  (7 :> <<
         3, 0, 1, 2, 3, 3, 3, 3, 0, 1, 2, 3, 0, 1, 2, 2, 2, 0, 3, 2, 0, 0, 3, 3, 0, 0, 3, 3, 2, 2, 3, 0,
         0, 3, 1, 0, 0, 3, 1, 0, 3, 1, 0, 2, 0, 1, 2, 2, 0, 2, 1, 3, 3, 3, 0, 3, 0, 1, 0, 0, 2, 3, 1, 0,
         0, 0, 3, 3, 2, 1, 3, 0, 1, 3, 3, 0, 3, 0, 1, 0, 3, 1, 3, 3, 3, 1, 3, 3, 0, 3, 1, 3, 2, 1, 1, 1,
         1, 1, 3, 3, 2, 3, 2, 2, 1, 3, 3, 3, 2, 3, 0, 0, 1, 3, 1, 1, 0, 3, 2, 2, 0, 0, 1, 0, 3, 3, 3, 0,
         0, 3, 0, 2, 2, 2, 3, 3, 3, 1, 2, 3, 3, 1, 0, 0, 3, 1, 0, 2, 2, 1, 2, 1, 0, 3, 3, 1, 2, 3, 1, 0,
         0, 1, 1, 1, 2, 0, 0, 2, 2, 2, 0, 2, 0, 2, 3, 2, 2, 0, 1, 1, 2, 2, 1, 1, 3, 1, 2, 0, 1, 0, 0, 2 >>) @@
  (23 :> <<
         3, 2, 0, 1, 2, 0, 3, 1, 0, 3, 3, 2, 1, 3, 2, 3, 1, 0, 1, 2, 3, 1, 1, 0, 0, 1, 0, 1, 3, 2, 2, 1,
         3, 1, 3, 3, 3, 0, 1, 1, 0, 3, 3, 2, 3, 3, 0, 2, 2, 1, 2, 2, 0, 1, 3, 0, 0, 1, 0, 2, 2, 3, 2, 2,
         0, 1, 2, 0, 2, 0, 0, 2, 3, 2, 3, 0, 2, 2, 2, 1, 3, 3, 2, 1, 0, 3, 2, 3, 3, 2, 3, 1, 1, 2, 0, 2,
         3, 0, 1, 2, 0, 0, 0, 3, 1, 1, 0, 2, 1, 1, 1, 0, 3, 1, 2, 0, 1, 3, 3, 2, 1, 2, 2, 0, 1, 0, 2, 1,
         3, 1, 0, 3, 3, 2, 0, 0, 3, 3, 0, 3, 2, 0, 0, 2, 0, 2, 1, 1, 2, 1, 1, 2, 1, 1, 1, 3, 0, 0, 2, 1,
         0, 0, 3, 3, 2, 1, 2, 3, 2, 0, 3, 0, 0, 3, 1, 2, 2, 2, 2, 2, 0, 1, 1, 2, 1, 0, 3, 2, 0, 3, 3, 2 >>) @@
  (123 :> <<
         2, 1, 2, 2, 0, 2, 2, 1, 3, 2, 3, 1, 2, 1, 0, 1, 2, 3, 1, 0, 2, 0, 3, 1, 3, 2, 1, 0, 0, 0, 0, 1,
         3, 3, 2, 0, 3, 2, 0, 3, 0, 1, 0, 3, 1, 3, 0, 0, 0, 2, 1, 1, 2, 2, 3, 2, 1, 0, 0, 3, 2, 1, 0, 3,
         2, 2, 2, 2, 1, 2, 0, 3, 3, 3, 1, 0, 2, 0, 2, 1, 3, 2, 0, 2, 2, 3, 0, 3, 3, 2, 3, 1, 3, 2, 1, 3,
         1, 2, 0, 0, 1, 0, 2, 1, 1, 3, 0, 1, 1, 0, 0, 3, 1, 2, 3, 3, 3, 1, 1, 3, 1, 2, 3, 3, 3, 3, 0, 2,
         2, 1, 3, 2, 2, 3, 1, 2, 0, 2, 3, 2, 1, 1, 2, 2, 3, 0, 3, 1, 3, 1, 0, 1, 0, 1, 2, 2, 3, 3, 0, 1,
         1, 1, 0, 3, 1, 1, 3, 0, 2, 3, 1, 2, 0, 1, 0, 2, 0, 3, 0, 3, 3, 2, 0, 2, 1, 0, 0, 3, 0, 0, 3, 0 >>)

\* np.random.seed(seed): the generator state is a function of the seed alone.
SeedState(sd) == <<sd, 0>>

\* One output advances the generator.
RngStep(s) == <<s[1], s[2] + 1>>

\* The two low bits of the next output.
NextUint32(s) == Mt19937Low2[s[1]][s[2] + 1]

\* The smallest 2^b - 1 that is >= top, for top <= 3.
GenMask(top) == IF top = 0 THEN 0 ELSE IF top = 1 THEN 1 ELSE 3

\* One index (1-based) among n and the state it leaves: the next output
\* under the mask of n - 1, redrawn while above n - 1; none drawn for n = 1.
RECURSIVE RngIndex(_, _)
RngIndex(s, n) ==
  IF n = 1 THEN [index |-> 1, rng |-> s]
  ELSE LET val == NextUint32(s) % (GenMask(n - 1) + 1)
       IN  IF val > n - 1 THEN RngIndex(RngStep(s), n)
           ELSE [index |-> val + 1, rng |-> RngStep(s)]

\* c indices among n drawn one after the other.
RECURSIVE RngIter(_, _, _)
RngIter(s, n, c) ==
  IF c = 0 THEN [indices |-> <<>>, rng |-> s]
  ELSE LET first == RngIndex(s, n)
           rest  == RngIter(first.rng, n, c - 1)
       IN  [indices |-> <<first.index>> \o rest.indices, rng |-> rest.rng]

\* Series.sample(n=len(data), replace=True): len(data) indices drawn with
\* replacement from the global generator, which is left advanced.
Sample(r, d) ==
  LET drawn == RngIter(r, Len(d), Len(d))
  IN  [ values |-> [i \in 1..Len(d) |-> d[drawn.indices[i]]],
        rng    |-> drawn.rng ]

\* ------------------------------------------------------------------ histogram

CountBelow(a, e) == Cardinality({p \in DOMAIN a : a[p] < e})

CountAtMost(a, e) == Cardinality({p \in DOMAIN a : a[p] <= e})

\* The same with a half-open last bin: a value equal to the last edge is dropped.
HistogramOpenTop(a, edges) ==
  [i \in 1..(Len(edges) - 1) |-> CountBelow(a, edges[i + 1]) - CountBelow(a, edges[i])]

\* np.histogram(a, bins=edges)[0]: cumulative counts at the edges (left for
\* every edge but the last, right for the last) and their differences.
Histogram(a, edges) ==
  LET nb == Len(edges) - 1
      cum(i) == IF i = nb + 1 THEN CountAtMost(a, edges[i]) ELSE CountBelow(a, edges[i])
  IN  [i \in 1..nb |-> cum(i + 1) - cum(i)]

\* x[mask] for a boolean mask.
RECURSIVE ApplyMask(_, _)
ApplyMask(x, mask) ==
  IF x = <<>> THEN <<>>
  ELSE (IF Head(mask) THEN <<Head(x)>> ELSE <<>>) \o ApplyMask(Tail(x), Tail(mask))

\* ------------------------------------------------------------------ fit

\* np.poly1d(np.polyfit(x, y, deg)) at np.linspace(x.min(), x.max(), 20)[j],
\* j in 0..19, for deg in {0, 1} and non-empty x.  With deg = 0, or with a
\* single point, the value is the mean of y.
FitValue(x, y, deg, j) ==
  LET n   == Len(x)
      Sx  == SumSeq(x)
      Sy  == SumSeq(y)
      Sxx == Dot(x, x)
      Sxy == Dot(x, y)
      D   == n * Sxx - Sx * Sx
      lo  == MinSeq(x)
      hi  == MaxSeq(x)
      g   == GridPoints - 1
  IN  IF deg = 0 \/ D = 0 THEN Frac(Sy, n)
      ELSE Frac(g * (Sy * Sxx - Sx * Sxy) + (n * Sxy - Sx * Sy) * (g * lo + j * (hi - lo)),
                g * D)

\* The fitted values left as they are.
ClipNone(v) == v

\* np.clip(v, 0, None) of one value.
Clip(v) == IF v[1] < 0 THEN <<0, 1>> ELSE v

\* The 20 raw values of the fitted polynomial on the grid.
RawCurve(x, y, deg) == [j \in 1..GridPoints |-> FitValue(x, y, deg, j - 1)]

\* np.clip(y_fit, 0, None)
ClipCurve(c) == [j \in DOMAIN c |-> Clip(c[j])]

\* The stored curve: np.clip(poly(x_fit), 0, None).
FitCurve(x, y, deg) == ClipCurve(RawCurve(x, y, deg))

\* np.zeros((n, 20))
Zeros(n) == [r \in 1..n |-> [j \in 1..GridPoints |-> <<0, 1>>]]

\* ------------------------------------------------------------------ pd.cut

\* (self.midpoints - self.binwidth / 2).round(3)
ShiftedLabels(mids, bw) ==
  [j \in DOMAIN mids |-> Rint(2 * mids[j] - bw, 2, <<bw, j>> \in LabelFlips)]

\* The entries of a sequence are pairwise different.
Unique(s) == \A a, b \in DOMAIN s : s[a] = s[b] => a = b

\* pd.cut(x, bins=edges, labels=labels, include_lowest=True, right=False) of
\* one value: ids = edges.searchsorted(x, side="right"); the value is missing
\* (<<>>) when ids is 0 or len(edges), else it is labels[ids - 1] (0-based).
Cut(x, edges, labels) ==
  LET ids == Cardinality({e \in DOMAIN edges : edges[e] <= x})
  IN  IF ids = 0 \/ ids = Len(edges) THEN <<>> ELSE <<labels[ids]>>

\* ------------------------------------------------------------------ state

VARIABLES
  data, binwidth, poly_degree, seed, bins, midpoints,  \* the estimator's fields
  rng,                \* numpy's global generator
  pc,                 \* "idle" or the scenario that is running
  op,                 \* the operation called last
  num_simulations, exclude_points, zstar, df,          \* its arguments
  results, coeff_matrix, exclusion_mask,               \* locals of the scenarios
  k, sim, i,                                           \* loop positions
  simulated, sample, counts, filt_mid, filt_counts, y_fit,
  fitted,             \* history: the curves stored by the running call, in order
  ret                 \* what the last call returned or raised

est == <<data, binwidth, poly_degree, seed, bins, midpoints>>

args == <<op, num_simulations, exclude_points, zstar, df>>

locals == <<results, coeff_matrix, exclusion_mask, k, sim, i,
            simulated, sample, counts, filt_mid, filt_counts, y_fit>>

vars == <<est, rng, pc, args, locals, fitted, ret>>

NoReturn == [status |-> "none", error |-> "", matrix |-> <<>>, table |-> <<>>]

Returned(m) == [status |-> "returned", error |-> "", matrix |-> m, table |-> <<>>]

Raised(e) == [status |-> "raised", error |-> e, matrix |-> <<>>, table |-> <<>>]

\* BunchingAnalysis(data_series, binwidth, poly_degree, seed); the global
\* generator is in whatever state the process left it.
Init ==
  /\ \E series \in InputSeries : data = DropNa(series)
  /\ binwidth \in BinWidths
  /\ poly_degree \in PolyDegrees
  /\ seed \in Seeds
  /\ bins = Arange(binwidth)
  /\ midpoints = Midpoints(bins)
  /\ rng \in RngStates
  /\ pc = "idle"
  /\ op = "__init__"
  /\ num_simulations = 0
  /\ exclude_points = <<>>
  /\ zstar = 0
  /\ df = <<>>
  /\ results = <<>>
  /\ coeff_matrix = <<>>
  /\ exclusion_mask = <<>>
  /\ k = 0
  /\ sim = 0
  /\ i = 0
  /\ simulated = <<>>
  /\ sample = <<>>
  /\ counts = <<>>
  /\ filt_mid = <<>>
  /\ filt_counts = <<>>
  /\ y_fit = <<>>
  /\ fitted = <<>>
  /\ ret = NoReturn

\* A call starts with fresh locals; res, cm, em and kk are the ones it sets
\* before its loop.
FreshLocals(res, cm, em, kk) ==
  /\ results' = res
  /\ coeff_matrix' = cm
  /\ exclusion_mask' = em
  /\ k' = kk
  /\ sim' = 0
  /\ i' = 0
  /\ simulated' = <<>>
  /\ sample' = <<>>
  /\ counts' = <<>>
  /\ filt_mid' = <<>>
  /\ filt_counts' = <<>>
  /\ y_fit' = <<>>

\* ------------------------------------------------------------------ add_bin_midpoint_column

\* add_bin_midpoint_column(df, var_name): col is df[var_name].  The returned
\* table is a copy of df with the column 'bin_midpoint' added.  pd.cut raises
\* ValueError when the rounded edges or the labels are not pairwise different.
AddBinMidpointColumn(col) ==
  /\ pc = "idle"
  /\ op' = "add_bin_midpoint_column"
  /\ df' = col
  /\ num_simulations' = 0
  /\ exclude_points' = <<>>
  /\ zstar' = 0
  /\ FreshLocals(<<>>, <<>>, <<>>, 0)
  /\ fitted' = <<>>
  /\ LET bin_midpoints_shifted == ShiftedLabels(midpoints, binwidth)
         edges == RoundEdges2(bins)
     IN  ret' = IF ~Unique(edges) \/ ~Unique(bin_midpoints_shifted)
                THEN Raised("ValueError")
                ELSE [NoReturn EXCEPT
                        !.status = "returned",
                        !.table = [r \in DOMAIN col |->
                                     [value |-> col[r],
                                      bin_midpoint |-> Cut(Round2(col[r]), edges,
                                                           bin_midpoints_shifted)]]]
  /\ UNCHANGED <<est, rng, pc>>

\* ------------------------------------------------------------------ scenario1

\* The generator is left as it is.
ReseedSkipped(r, sd) == r

\* np.random.seed(self.seed) at the start of a scenario.
Reseed(r, sd) == SeedState(sd)

\* The set of keys of {point: ... for point in exclude_points}.
Keys(excl) == {excl[t] : t \in DOMAIN excl}

\* np.vstack([results[point] for point in exclude_points])
RECURSIVE VStack(_, _)
VStack(res, excl) ==
  IF excl = <<>> THEN <<>> ELSE res[Head(excl)] \o VStack(res, Tail(excl))

\* Lines 94-96: seed the generator, allocate one zero matrix per distinct point.
Scenario1Call(n, excl) ==
  /\ pc = "idle"
  /\ pc' = "scenario1"
  /\ op' = "scenario1"
  /\ num_simulations' = n
  /\ exclude_points' = excl
  /\ zstar' = 0
  /\ df' = <<>>
  /\ rng' = Reseed(rng, seed)
  /\ FreshLocals([p \in Keys(excl) |-> Zeros(n)], <<>>, <<>>, 1)
  /\ fitted' = <<>>
  /\ ret' = NoReturn
  /\ UNCHANGED est

\* Lines 102-122, one pass of the inner loop: resample, bin, drop the bin
\* whose midpoint equals the exclusion point, fit, clip, store.
Scenario1Iter ==
  /\ pc = "scenario1"
  /\ k <= Len(exclude_points)
  /\ sim < num_simulations
  /\ LET excl_point == exclude_points[k]
         smp  == Sample(rng, data)
         cnt  == Histogram(RoundSeq2(smp.values), RoundEdges2(bins))
         mask == [m \in DOMAIN midpoints |-> midpoints[m] # excl_point]
         fm   == ApplyMask(midpoints, mask)
         fc   == ApplyMask(cnt, mask)
     IN  /\ rng' = smp.rng
         /\ simulated' = smp.values
         /\ counts' = cnt
         /\ filt_mid' = fm
         /\ filt_counts' = fc
         /\ IF fm = <<>>
            THEN \* np.polyfit: TypeError("expected non-empty vector for x")
                 /\ pc' = "idle"
                 /\ ret' = Raised("TypeError")
                 /\ UNCHANGED <<y_fit, results, sim, fitted>>
            ELSE /\ y_fit' = FitCurve(fm, fc, poly_degree)
                 /\ results' = [results EXCEPT ![excl_point][sim + 1] = y_fit']
                 /\ sim' = sim + 1
                 /\ fitted' = Append(fitted, y_fit')
                 /\ UNCHANGED <<pc, ret>>
  /\ UNCHANGED <<est, args, coeff_matrix, exclusion_mask, k, i, sample>>

\* The same step with the generator seeded again for the next point.
Scenario1NextPointReseeding ==
  /\ pc = "scenario1"
  /\ k <= Len(exclude_points)
  /\ sim = num_simulations
  /\ k' = k + 1
  /\ sim' = 0
  /\ rng' = SeedState(seed)
  /\ UNCHANGED <<est, pc, args, results, coeff_matrix, exclusion_mask, i,
                 simulated, sample, counts, filt_mid, filt_counts, y_fit, fitted, ret>>

\* Line 98: the inner loop is over, the outer loop moves to the next point.
Scenario1NextPoint ==
  /\ pc = "scenario1"
  /\ k <= Len(exclude_points)
  /\ sim = num_simulations
  /\ k' = k + 1
  /\ sim' = 0
  /\ UNCHANGED <<est, rng, pc, args, results, coeff_matrix, exclusion_mask, i,
                 simulated, sample, counts, filt_mid, filt_counts, y_fit, fitted, ret>>

\* Lines 123-125: stack the per-point matrices; np.vstack of an empty list
\* raises ValueError.
Scenario1Return ==
  /\ pc = "scenario1"
  /\ k > Len(exclude_points)
  /\ pc' = "idle"
  /\ ret' = IF exclude_points = <<>> THEN Raised("ValueError")
            ELSE Returned(VStack(results, exclude_points))
  /\ UNCHANGED <<est, rng, args, locals, fitted>>

\* ------------------------------------------------------------------ scenario2

\* scaled_sims = num_simulations * 4
ScaledSims(n) == n * 4

\* Lines 132-135.
Scenario2Call(n) ==
  /\ pc = "idle"
  /\ pc' = "scenario2"
  /\ op' = "scenario2"
  /\ num_simulations' = n
  /\ exclude_points' = <<>>
  /\ zstar' = 0
  /\ df' = <<>>
  /\ rng' = Reseed(rng, seed)
  /\ FreshLocals(<<>>, Zeros(ScaledSims(n)), <<>>, 0)
  /\ fitted' = <<>>
  /\ ret' = NoReturn
  /\ UNCHANGED est

\* Lines 137-145, one pass of the loop: resample, bin, fit over all
\* midpoints (y_fit holds the raw values of line 144), store them clipped.
Scenario2Iter ==
  /\ pc = "scenario2"
  /\ i < Len(coeff_matrix)
  /\ LET smp == Sample(rng, data)
         cnt == Histogram(RoundSeq2(smp.values), RoundEdges2(bins))
     IN  /\ rng' = smp.rng
         /\ sample' = smp.values
         /\ counts' = cnt
         /\ y_fit' = RawCurve(midpoints, cnt, poly_degree)
         /\ coeff_matrix' = [coeff_matrix EXCEPT ![i + 1] = ClipCurve(y_fit')]
         /\ fitted' = Append(fitted, ClipCurve(y_fit'))
         /\ i' = i + 1
  /\ UNCHANGED <<est, pc, args, results, exclusion_mask, k, sim,
                 simulated, filt_mid, filt_counts, ret>>

\* Line 147.
Scenario2Return ==
  /\ pc = "scenario2"
  /\ i = Len(coeff_matrix)
  /\ pc' = "idle"
  /\ ret' = Returned(coeff_matrix)
  /\ UNCHANGED <<est, rng, args, locals, fitted>>

\* ------------------------------------------------------------------ scenario3

\* exclusion_mask = (midpoints < zstar - binwidth) | (midpoints > zstar + binwidth),
\* the difference and the sum being doubles: a midpoint that equals one of them
\* in decimals compares below or above where the double is off.
ExclusionMask(mids, z, bw) ==
  [m \in DOMAIN mids |->
     \/ mids[m] < z - bw
     \/ (mids[m] = z - bw /\ <<bw, z>> \in WindowLowAbove)
     \/ mids[m] > z + bw
     \/ (mids[m] = z + bw /\ <<bw, z>> \in WindowHighBelow)]

\* Lines 153-157.
Scenario3Call(n, z) ==
  /\ pc = "idle"
  /\ pc' = "scenario3"
  /\ op' = "scenario3"
  /\ num_simulations' = n
  /\ exclude_points' = <<>>
  /\ zstar' = z
  /\ df' = <<>>
  /\ rng' = Reseed(rng, seed)
  /\ FreshLocals(<<>>, Zeros(ScaledSims(n)), ExclusionMask(midpoints, z, binwidth), 0)
  /\ fitted' = <<>>
  /\ ret' = NoReturn
  /\ UNCHANGED est

\* Lines 159-166 with _polyfit_smoothed (83-87), one pass of the loop; y_fit
\* is the local of _polyfit_smoothed (line 86, raw), whose clipped copy is
\* returned and stored.
Scenario3Iter ==
  /\ pc = "scenario3"
  /\ i < Len(coeff_matrix)
  /\ LET smp == Sample(rng, data)
         cnt == Histogram(RoundSeq2(smp.values), RoundEdges2(bins))
         fm  == ApplyMask(midpoints, exclusion_mask)
         fc  == ApplyMask(cnt, exclusion_mask)
     IN  /\ rng' = smp.rng
         /\ sample' = smp.values
         /\ counts' = cnt
         /\ filt_mid' = fm
         /\ filt_counts' = fc
         /\ IF fm = <<>>
            THEN \* np.polyfit: TypeError("expected non-empty vector for x")
                 /\ pc' = "idle"
                 /\ ret' = Raised("TypeError")
                 /\ UNCHANGED <<y_fit, coeff_matrix, i, fitted>>
            ELSE /\ y_fit' = RawCurve(fm, fc, poly_degree)
                 /\ coeff_matrix' = [coeff_matrix EXCEPT ![i + 1] = ClipCurve(y_fit')]
                 /\ i' = i + 1
                 /\ fitted' = Append(fitted, ClipCurve(y_fit'))
                 /\ UNCHANGED <<pc, ret>>
  /\ UNCHANGED <<est, args, results, exclusion_mask, k, sim, simulated>>

\* Line 168.
Scenario3Return ==
  /\ pc = "scenario3"
  /\ i = Len(coeff_matrix)
  /\ pc' = "idle"
  /\ ret' = Returned(coeff_matrix)
  /\ UNCHANGED <<est, rng, args, locals, fitted>>

\* ------------------------------------------------------------------ specification

\* The exclude_points lists of at most MaxPoints points.
PointLists == UNION {[1..len -> ExcludeValues] : len \in 0..MaxPoints}

Next ==
  \/ \E col \in Columns : AddBinMidpointColumn(col)
  \/ \E n \in 0..MaxSims, excl \in PointLists : Scenario1Call(n, excl)
  \/ Scenario1Iter
  \/ Scenario1NextPoint
  \/ Scenario1Return
  \/ \E n \in 0..MaxSims : Scenario2Call(n)
  \/ Scenario2Iter
  \/ Scenario2Return
  \/ \E n \in 0..MaxSims, z \in ZStars : Scenario3Call(n, z)
  \/ Scenario3Iter
  \/ Scenario3Return

Spec == Init /\ [][Next]_vars

\* ------------------------------------------------------------------ claims

Scenarios == {"scenario1", "scenario2", "scenario3"}

MidSet == {midpoints[m] : m \in DOMAIN midpoints}

NonNegative(curve) == \A j \in DOMAIN curve : curve[j][1] >= 0 /\ curve[j][2] > 0

\* The resample drawn by the latest iteration of the running scenario.
Drawn == IF op = "scenario1" THEN simulated ELSE sample

\* The latest iteration has binned a resample.
HasBinned == op \in Scenarios /\ counts # <<>>

\* C1: every finished scenario call has returned a matrix: scenario1 one of
\* len(exclude_points) * num_simulations rows, scenario2 and scenario3 one of
\* 4 * num_simulations rows, every row of 20 entries; this for every
\* num_simulations >= 0 and every exclude_points list, the empty one included.
\* (A call whose fit had no bin left ends in polyfit's TypeError and is left
\* aside here.)
C1_RowCounts ==
  (op \in Scenarios /\ ret.status # "none" /\ ret.error # "TypeError") =>
    /\ ret.status = "returned"
    /\ op = "scenario1" => Len(ret.matrix) = Len(exclude_points) * num_simulations
    /\ op \in {"scenario2", "scenario3"} => Len(ret.matrix) = 4 * num_simulations
    /\ \A r \in DOMAIN ret.matrix : Len(ret.matrix[r]) = 20

\* C2: every entry of every stored row and of every returned matrix is >= 0.
C2_NonNegative ==
  /\ \A r \in DOMAIN ret.matrix : NonNegative(ret.matrix[r])
  /\ \A r \in DOMAIN coeff_matrix : NonNegative(coeff_matrix[r])
  /\ \A p \in DOMAIN results : \A r \in DOMAIN results[p] : NonNegative(results[p][r])
  /\ \A r \in DOMAIN fitted : NonNegative(fitted[r])
  /\ op = "scenario1" => NonNegative(y_fit)

\* A row was stored whose fitted polynomial was negative somewhere, and the
\* stored entry there is zero.
C2_Witness ==
  /\ pc = "scenario2"
  /\ i > 0
  /\ \E j \in 1..GridPoints :
       /\ y_fit[j][1] < 0
       /\ coeff_matrix[i][j] = <<0, 1>>

\* The generator after r resamples of the stream started at the seed, and
\* the resample number r (from 0) of that stream.
RECURSIVE RngAfter(_)
RngAfter(r) == IF r = 0 THEN SeedState(seed) ELSE Sample(RngAfter(r - 1), data).rng

ResampleNo(r) == Sample(RngAfter(r), data).values

\* The curve fitted to resample number r over the bins keep selects.
CurveNo(r, keep) ==
  LET cnt == Histogram(RoundSeq2(ResampleNo(r)), RoundEdges2(bins))
  IN  FitCurve(ApplyMask(midpoints, keep), ApplyMask(cnt, keep), poly_degree)

\* The last position of exclude_points holding the point at position t.
LastPass(t) ==
  CHOOSE u \in DOMAIN exclude_points :
    /\ exclude_points[u] = exclude_points[t]
    /\ \A w \in DOMAIN exclude_points : exclude_points[w] = exclude_points[t] => w <= u

\* The matrix as a function of the estimator's fields and the arguments alone.
MatrixOfArguments ==
  LET n == num_simulations
  IN  IF op = "scenario1"
      THEN [r \in 1..(Len(exclude_points) * n) |->
              LET t == ((r - 1) \div n) + 1
                  s == (r - 1) % n
              IN  CurveNo((LastPass(t) - 1) * n + s,
                          [m \in DOMAIN midpoints |-> midpoints[m] # exclude_points[t]])]
      ELSE IF op = "scenario2"
      THEN [r \in 1..(4 * n) |-> CurveNo(r - 1, [m \in DOMAIN midpoints |-> TRUE])]
      ELSE [r \in 1..(4 * n) |-> CurveNo(r - 1, ExclusionMask(midpoints, zstar, binwidth))]

\* C3: whatever calls came before (whatever state they left the generator in),
\* the matrix a scenario returns is determined by the sample, binwidth,
\* poly_degree, seed and the call's arguments.
C3_Deterministic ==
  (ret.status = "returned" /\ op \in Scenarios) => ret.matrix = MatrixOfArguments

\* A scenario2 call returned two different rows and left the generator
\* advanced for the call that comes next.
C3_Witness ==
  /\ ret.status = "returned"
  /\ op = "scenario2"
  /\ num_simulations = 1
  /\ rng # SeedState(seed)
  /\ ret.matrix[1] # ret.matrix[2]

\* C4: scenario1 called with an exclusion point that equals no bin midpoint
\* raises, returns nothing, and never fits with no bin removed for that point.
C4_UnmatchedPointRaises ==
  (op = "scenario1" /\ \E t \in DOMAIN exclude_points : exclude_points[t] \notin MidSet) =>
    /\ ret.status # "returned"
    /\ ~(pc = "scenario1" /\ sim > 0 /\ exclude_points[k] \notin MidSet
         /\ filt_mid = midpoints)

\* The midpoints outside the closed window [zstar - binwidth, zstar + binwidth].
OutsideWindow == {x \in MidSet : x < zstar - binwidth \/ x > zstar + binwidth}

\* C5: in scenario3 the x-positions of every iteration's fit are exactly the
\* midpoints outside [zstar - binwidth, zstar + binwidth], each once.
C5_FitInputsOutsideWindow ==
  (op = "scenario3" /\ (i > 0 \/ ret.status = "raised")) =>
    /\ {filt_mid[t] : t \in DOMAIN filt_mid} = OutsideWindow
    /\ Len(filt_mid) = Cardinality(OutsideWindow)
    /\ \A t \in DOMAIN filt_mid :
         ~(zstar - binwidth <= filt_mid[t] /\ filt_mid[t] <= zstar + binwidth)
    /\ Len(filt_counts) = Len(filt_mid)

\* The bins scenario1 keeps for the point at position t.
KeptFor(t) == {x \in MidSet : x # exclude_points[t]}

\* C6: a scenario that fitted with fewer than poly_degree + 1 bins left does
\* not return a matrix.
C6_TooFewBinsRaises ==
  (ret.status = "returned" /\ op \in Scenarios /\ fitted # <<>>) =>
    /\ op = "scenario1" =>
         \A t \in DOMAIN exclude_points : Cardinality(KeptFor(t)) >= poly_degree + 1
    /\ op = "scenario2" => Cardinality(MidSet) >= poly_degree + 1
    /\ op = "scenario3" => Len(filt_mid) >= poly_degree + 1

\* C7: add_bin_midpoint_column labels every value v in [0,1]; a value with
\* bins[b] <= v < bins[b+1] gets midpoints[b] - binwidth/2; the returned table
\* keeps the column's values.
C7_EveryValueLabelled ==
  (op = "add_bin_midpoint_column" /\ ret.status = "returned") =>
    /\ Len(ret.table) = Len(df)
    /\ \A r \in DOMAIN df :
         /\ ret.table[r].value = df[r]
         /\ (0 <= df[r] /\ df[r] <= One) =>
              /\ ret.table[r].bin_midpoint # <<>>
              /\ \A b \in DOMAIN midpoints :
                   (bins[b] <= df[r] /\ df[r] < bins[b + 1]) =>
                     2 * ret.table[r].bin_midpoint[1] = 2 * midpoints[b] - binwidth

\* The number of values of a in bin b of edges: e[b] <= v < e[b+1], the last
\* bin also holding a value equal to the last edge.
InBin(a, e, b) ==
  Cardinality({p \in DOMAIN a :
                 /\ e[b] <= a[p]
                 /\ (a[p] < e[b + 1] \/ (b = Len(e) - 1 /\ a[p] = e[b + 1]))})

\* C8 as stated: the counts of an iteration are those of the resampled values
\* in the estimator's bins, and sum to the size of the sample.
C8_CountsOverFixedEdges ==
  HasBinned =>
    /\ \A b \in DOMAIN counts : counts[b] = InBin(Drawn, bins, b)
    /\ SumSeq(counts) = Len(Drawn)
    /\ Len(Drawn) = Len(data)

\* C8 amended: the counts are those of the resampled values rounded to two
\* decimals in the bins whose edges are rounded to two decimals; they sum to
\* the size of the resample, which is the size of the sample.
C8_CountsOfRoundedValues ==
  HasBinned =>
    /\ Len(counts) = Len(midpoints)
    /\ \A b \in DOMAIN counts : counts[b] = InBin(RoundSeq2(Drawn), RoundEdges2(bins), b)
    /\ SumSeq(counts) = Len(Drawn)
    /\ Len(Drawn) = Len(data)

\* A resampled value was counted in the bin above the one it lies in, and
\* another (or the same) was counted on the last edge.
C8_Witness ==
  /\ HasBinned
  /\ \E p \in DOMAIN Drawn, b \in DOMAIN counts :
       /\ Drawn[p] < bins[b + 1]
       /\ Round2(Drawn[p]) >= bins[b + 1]
       /\ b < Len(counts)
       /\ counts[b + 1] >= 1

\* C9: inside a scenario1 call the generator is the stream started at the
\* seed, advanced by the resamples of the (k-1)*num_simulations + sim
\* iterations done so far, and the latest resample is that slice of the stream.
C9_OneStreamPerCall ==
  pc = "scenario1" =>
    LET done == (k - 1) * num_simulations + sim
    IN  /\ rng = RngAfter(done)
        /\ sim > 0 => simulated = ResampleNo(done - 1)

\* Both iterations of the second exclusion point done: the latest resample is
\* the fourth of the stream, not the second (which a reseed per point gives).
C9_Witness ==
  /\ pc = "scenario1"
  /\ num_simulations = 2
  /\ k = 2
  /\ sim = 2
  /\ simulated = ResampleNo(3)
  /\ simulated # ResampleNo(1)

\* C10: the matrix scenario1 returns holds, at row (k-1)*num_simulations + s,
\* the curve fitted in iteration s of pass k of the outer loop.
C10_StackedInPassOrder ==
  (op = "scenario1" /\ ret.status = "returned") =>
    /\ Len(ret.matrix) = Len(fitted)
    /\ \A r \in DOMAIN ret.matrix : ret.matrix[r] = fitted[r]

====
